---- MODULE Spec2Model ----
(***************************************************************************)
(* Model of the credit-card statement pipeline: extract_pdf_data.py,       *)
(* clean_analysis.py and saas_analysis.py.                                 *)
(*                                                                         *)
(* A Python str is a sequence of one-character tokens.  An ASCII character *)
(* is the string of length one holding it; any other character is the      *)
(* token "uXXXX" naming its code point.  Amounts are fixed-point numbers   *)
(* in hundredths (12.5 is 1250).                                           *)
(***************************************************************************)
EXTENDS Integers, Sequences, FiniteSets, TLC

VARIABLES
  pc,            \* position of the running script
  env,           \* environment of extract_pdf_data.main: PDF_PASSWORD, PDF_PATH
  pdf_path,      \* local pdf_path of extract_pdf_data.main
  text,          \* local text of extract_pdf_data.main
  calls,         \* library/function calls made so far, in order
  files,         \* files written so far
  matches,       \* re.findall results, one list per pattern
  transactions,  \* list transactions of parse_transactions / extract_pdf_data.main
  unique_transactions,  \* list unique_transactions of parse_transactions
  csv,           \* rows of the CSV file a script reads (pd.read_csv)
  df,            \* DataFrame df of clean_analysis.main
  saas_df,       \* frame returned by load_and_filter_saas_data
  runA, runB,    \* two independent categorization runs
  returned,      \* values extract_pdf_text and debug_pdf_content returned, in call order
  analysis       \* dict analysis of extract_pdf_data.main

vars == <<pc, env, pdf_path, text, calls, files, matches, transactions, unique_transactions, csv, df,
          saas_df, runA, runB, returned, analysis>>

-----------------------------------------------------------------------------
(* Strings *)

\* A string literal as a sequence of one-character tokens.
Str(s) == [i \in 1..Len(s) |-> SubSeq(s, i, i)]

\* pandas' missing value, as read_csv yields it for an empty field.
NaN == <<"NaN">>

\* Python: k in d
Contains(d, k) == \E i \in 0..(Len(d) - Len(k)) : SubSeq(d, i + 1, i + Len(k)) = k

LowerCase == Str("abcdefghijklmnopqrstuvwxyz")
UpperCase == Str("ABCDEFGHIJKLMNOPQRSTUVWXYZ")

\* abs(n)
Abs(n) == IF n < 0 THEN -n ELSE n

-----------------------------------------------------------------------------
(* Keyword tables, in declaration order *)

categories_extract ==
  <<
    [name |-> "Food & Dining", keywords |-> <<
       <<"u00C8", "u00A7", "u00EA", "u00C2", "u00AA", "u2265">>, <<"u00C8", "u00A3", "u00FC">>,
       <<"u00C8", "u00A3", "u2264">>,
       <<"u00C8", "u222B", "u2022", "u00C1", "u00EF", "u2202", "u00C2", "u00E3", "u00FB">>,
       <<"u00CA", "u00F2", "u00FC", "u00C2", "u2211", "u00A5", "u00C2", "u00D6", "u00E3">>,
       <<"u2030", "u00E6", "u00F8", "u00C2", "u00E0", "u00A9", "u00C2", "u00EF", "u00DC", "u00C2", "u222B", "u00F3">>,
       <<"u00CB", "u2202", "u00D6", "u00C2", "u220F", "u00C7">>, Str("7-11"),
       <<"u00C2", "u00D6", "u00AE", "u00C2", "u00C6", "u2202">>,
       <<"u00C1", "u00E6", "u00E9", "u00C8", "u00A3", "u00FC">>, <<"u00C8", "u00A7", "u00EA">>,
       <<"u00C8", "u00A3", "u00D8">>, <<"u00C2", "u00ED", "u00F1", "u00C2", "u00EF", "u00B0">>
    >>],
    [name |-> "Transportation", keywords |-> <<
       <<"u00CA", "u00E7", "u2211", "u00C8", "u00C5", "u00E3">>,
       <<"u00C2", "u00D6", "u00A8", "u00CB", "u00AA", "u00E4">>,
       <<"u00CB", "u00AE", "u00E0", "u00C1", "u00AE", "u00E3", "u00CB", "u00AA", "u00E4">>,
       <<"u00C2", "u00E4", "u2020", "u00CA", "u2264", "u03C0">>,
       <<"u00C2", "u00C5", "u00FA", "u00CB", "u00AA", "u00E4">>, Str("UBER"),
       <<"u00CA", "u2264", "u03C0", "u00C1", "u00B4", "u00F4">>,
       <<"u2030", "u222B", "u00A7", "u00C8", "u00C4", "u00F6">>,
       <<"u00C8", "u00B4", "u00F2", "u00C8", "u00EA", "u00B5">>,
       <<"u00C2", "u00E8", "u221E", "u00C8", "u00EA", "u00B5">>,
       <<"u00C2", "u00C6", "u00A2", "u00C8", "u00C5", "u00E3">>
    >>],
    [name |-> "Shopping", keywords |-> <<
       <<"u00C1", "u00F4", "u00E6", "u00CB", "u2264", "u00AE">>,
       <<"u00CB", "u2265", "u00BA", "u00C1", "u00E2", "u00A9">>,
       <<"u00CA", "u00FA", "u00E7", "u00C8", "u00A3", "u00E6">>,
       <<"u00C8", "u00F5", "u00AA", "u00C2", "u00F4", "u00AE">>,
       <<"u00C1", "u2202", "u2264", "u00CB", "u2265", "u00BA">>,
       <<"u00C2", "u00EF", "u00DC", "u00C2", "u00FC", "u00E9">>, Str("AMAZON"),
       <<"u00CB", "u2264", "u2211">>, <<"u00CB", "u2265", "u00BA">>,
       <<"u00C2", "u00EF", "u00DC", "u00C2", "u222B", "u00F3">>,
       <<"u00C2", "u220F", "u00C7", "u00C2", "u2020", "u00A5">>
    >>],
    [name |-> "Entertainment", keywords |-> <<
       <<"u00C8", "u00F5", "u00AA", "u00C2", "u03A9", "u00B1">>,
       <<"u00C8", "u00C5", "u00E4", "u00CA", "u00E0", "u2264">>,
       <<"u00C2", "u00AE", "u00F5", "u00CA", "u00AE", "u00C7">>, Str("KTV"),
       <<"u00C2", "u00C5", "u2022", "u00CB", "u222B", "u00B4">>,
       <<"u00C8", "u00C5", "u00E3", "u00C2", "u00E3", "u00EF">>,
       <<"u00CA", "u00F5", "u220F", "u00C2", "u222B", "u00F3">>,
       <<"u00C8", "u00FC", "u2265", "u00CA", "u00AE", "u00C7">>
    >>],
    [name |-> "Bills & Utilities", keywords |-> <<
       <<"u00C8", "u00F5", "u00AA", "u00CB", "u2264", "u00AA">>,
       <<"u00CA", "u221E", "u00A5", "u00CB", "u2264", "u00AA">>,
       <<"u00C1", "u00EC", "u00B6", "u00CA", "u00F1", "u00D8">>,
       <<"u00C8", "u00F5", "u00AA", "u2030", "u00F8", "u00B0">>,
       <<"u2030", "u00F8", "u00F9", "u00C8", "u00F6", "u2122">>,
       <<"u00C8", "u00E4", "u00C4", "u00CB", "u00B0", "u00E5">>,
       <<"u00CB", "u2264", "u00AA", "u00C1", "u00EE", "u00AE">>,
       <<"u00C2", "u220F", "u2265", "u00C2", "u00F1", "u00C6">>,
       <<"u00C1", "u03C0", "u2265", "u00CB", "u2264", "u00AA">>
    >>],
    [name |-> "Healthcare", keywords |-> <<
       <<"u00C8", "u00DC", "u00B4", "u00C8", "u00F4", "u00A2">>,
       <<"u00CB", "u00AE", "u222B", "u00CA", "u00E2", "u00C4">>,
       <<"u00CB", "u00F3", "u2022", "u00C2", "u00B1", "u00C4">>,
       <<"u00C2", "u00C5", "u2022", "u00C2", "u222B", "u2211">>,
       <<"u00C8", "u00DC", "u00B4", "u00C1", "u00F4", "u00C7">>,
       <<"u00C1", "u00E2", "u00F4", "u00C1", "u00DF", "u00EB">>,
       <<"u00C1", "u00FA", "u00BA", "u00C1", "u00DF", "u00EB">>
    >>],
    [name |-> "Education", keywords |-> <<
       <<"u00C2", "u2260", "u220F", "u00CA", "u2020", "u00B0">>,
       <<"u00CB", "u00A3", "u00FA", "u00C1", "u00F8", "u00ED">>,
       <<"u00CA", "u00F5", "u220F", "u00C2", "u222B", "u00F3">>,
       <<"u00CA", "u00F1", "u00E1", "u00C2", "u00D6", "u2211">>,
       <<"u00CA", "u00EF", "u00F4", "u00CB", "u00C7", "u2264">>,
       <<"u00C2", "u2260", "u220F", "u00CB", "u2264", "u00AA">>
    >>],
    [name |-> "Travel", keywords |-> <<
       <<"u00C8", "u00A3", "u00D8", "u00C2", "u222B", "u00F3">>,
       <<"u00CA", "u00A9", "u00FC", "u00C1", "u2022", "u00AE">>,
       <<"u00CA", "u00F3", "u00D6", "u00C8", "u00C5", "u00E4">>,
       <<"u2030", "u03A9", "u00E8", "u00C2", "u00C6", "u00F8">>,
       <<"u00CA", "u00F3", "u00D6", "u00CB", "u00B0", "u00E5">>, Str("HOTEL")
    >>],
    [name |-> "Cash/ATM", keywords |-> <<
       <<"u00CA", "u00E8", "u00EA", "u00CA", "u00A8", "u00E6">>, Str("ATM"),
       <<"u00C1", "u00E8", "u00E6", "u00C8", "u00E1", "u00EB">>,
       <<"u00CB", "u03A9", "u00E2", "u00C2", "u220F", "u2265">>,
       <<"u00C2", "u00E5", "u00D8", "u00CA", "u00A8", "u00E6">>
    >>],
    [name |-> "Other", keywords |-> <<
    >>]
  >>

categories_clean ==
  <<
    [name |-> "Food & Dining", keywords |-> <<
       <<"u9910", "u5EF3">>, <<"u98DF">>, <<"u98F2">>, <<"u9EA5", "u7576", "u52DE">>,
       <<"u661F", "u5DF4", "u514B">>, <<"u4FBF", "u5229", "u5546", "u5E97">>,
       <<"u8D85", "u5E02">>, Str("7-11"), <<"u5168", "u5BB6">>, <<"u7F8E", "u98DF">>,
       <<"u9910">>, <<"u98EF">>, <<"u5496", "u5561">>, Str("cama"),
       <<"u676D", "u5DDE", "u5C0F", "u7C60", "u5305">>, <<"u990A", "u5FC3", "u6BBF">>,
       <<"u4EAC", "u661F", "u6E2F", "u5F0F", "u98F2", "u8336">>, <<"u5317", "u6751", "u5BB6">>,
       <<"u5410", "u53F8", "u5229", "u4E9E">>, <<"u512A", "u98DF">>, Str("Subway"),
       <<"u71D2", "u8089">>, <<"u5275", "u7FA9", "u9EB5">>, <<"u6E58", "u5DDD">>,
       <<"u73CD", "u871C", "u5496", "u5561">>, Str("Fake Sober"), Str("J WOW"),
       <<"u5168", "u806F", "u798F", "u5229", "u4E2D", "u5FC3">>, <<"u9EA5", "u7576", "u52DE">>
    >>],
    [name |-> "Transportation", keywords |-> <<
       <<"u6377", "u904B">>, <<"u516C", "u8ECA">>, <<"u8A08", "u7A0B", "u8ECA">>,
       <<"u52A0", "u6CB9">>, <<"u505C", "u8ECA">>, Str("UBER"), <<"u6CB9", "u7AD9">>,
       <<"u4EA4", "u901A">>, <<"u9AD8", "u9435">>, <<"u53F0", "u9435">>, <<"u5BA2", "u904B">>,
       <<"u53F0", "u7063", "u5927", "u8ECA", "u968A">>, <<"u512A", "u6B65">>, Str("Taxi")
    >>],
    [name |-> "Technology/Software", keywords |-> <<
       Str("CURSOR"), Str("ADOBE"), Str("OPENAI"), Str("GOOGLE"), Str("FIGMA"), Str("HEYGEN"),
       Str("SEASALT"), Str("REPORTDASH"), Str("MANYCHAT"), Str("RSS.APP"), Str("PADDLE"),
       Str("LEONARDO"), Str("Colab"), Str("SPOTIFY"), Str("ANTHROPIC"), Str("Gandi"),
       Str("APIFY"), Str("SHOPIFY"), Str("PCHOME")
    >>],
    [name |-> "Shopping", keywords |-> <<
       <<"u767E", "u8CA8">>, <<"u8CFC", "u7269">>, <<"u670D", "u98FE">>, <<"u96FB", "u5668">>,
       <<"u7DB2", "u8CFC">>, <<"u5546", "u57CE">>, Str("AMAZON"), <<"u8CB7">>, <<"u8CFC">>,
       <<"u5546", "u5E97">>, <<"u5E02", "u5834">>, Str("IKEA"),
       <<"u5B9C", "u5BB6", "u5BB6", "u5C45">>, <<"u6C38", "u6607", "u4E94", "u91D1">>,
       <<"u4ECA", "u83EF", "u96FB", "u5B50">>, <<"u6E90", "u9054", "u79D1", "u6280">>
    >>],
    [name |-> "Entertainment", keywords |-> <<
       <<"u96FB", "u5F71">>, <<"u904A", "u6232">>, <<"u5A1B", "u6A02">>, Str("KTV"),
       <<"u5065", "u8EAB">>, <<"u904B", "u52D5">>, <<"u66F8", "u5E97">>, <<"u97F3", "u6A02">>,
       <<"u9322", "u6AC3">>
    >>],
    [name |-> "Bills & Utilities", keywords |-> <<
       <<"u96FB", "u8CBB">>, <<"u6C34", "u8CBB">>, <<"u74E6", "u65AF">>, <<"u96FB", "u4FE1">>,
       <<"u4FDD", "u96AA">>, <<"u9280", "u884C">>, <<"u8CBB", "u7528">>, <<"u5E33", "u55AE">>,
       <<"u7E73", "u8CBB">>, <<"u624B", "u7E8C", "u8CBB">>,
       <<"u570B", "u5916", "u4EA4", "u6613", "u624B", "u7E8C", "u8CBB">>, Str("ATT")
    >>],
    [name |-> "Cash/ATM", keywords |-> <<
       <<"u63D0", "u6B3E">>, Str("ATM"), <<"u73FE", "u91D1">>, <<"u8F49", "u5E33">>,
       <<"u532F", "u6B3E">>, <<"u73FE", "u91D1", "u56DE", "u994B">>,
       <<"u81EA", "u52D5", "u6263", "u7E73">>
    >>],
    [name |-> "Business/Marketing", keywords |-> <<
       <<"u5168", "u7403", "u5546", "u52D9", "u79D1", "u6280">>, Str("LINE Ads"),
       <<"u9023", "u52A0">>
    >>],
    [name |-> "Other", keywords |-> <<
    >>]
  >>

saas_keywords ==
  <<
    [name |-> "AI/ML Tools", keywords |-> <<
       Str("CURSOR"), Str("OPENAI"), Str("ANTHROPIC"), Str("LEONARDO"), Str("HEYGEN")
    >>],
    [name |-> "Design Tools", keywords |-> <<
       Str("FIGMA"), Str("ADOBE")
    >>],
    [name |-> "Cloud Services", keywords |-> <<
       Str("GOOGLE"), Str("Colab")
    >>],
    [name |-> "Development Tools", keywords |-> <<
       Str("REPORTDASH"), Str("Gandi")
    >>],
    [name |-> "Marketing Tools", keywords |-> <<
       Str("MANYCHAT"), Str("RSS.APP"), Str("SEASALT")
    >>],
    [name |-> "Media", keywords |-> <<
       Str("SPOTIFY"), Str("PADDLE")
    >>]
  >>

-----------------------------------------------------------------------------
(* Categorization: extract_pdf_data.categorize_transactions and            *)
(* clean_analysis.improve_categorization run the same two nested loops.    *)

\* for keyword in keywords: if keyword in description: ... break
RECURSIVE KeywordLoop(_, _, _)
KeywordLoop(keywords, j, description) ==
  IF j > Len(keywords) THEN FALSE
  ELSE IF Contains(description, keywords[j]) THEN TRUE
  ELSE KeywordLoop(keywords, j + 1, description)

\* Mutant of CategoryLoop: no break after a match, the last matching category wins.
RECURSIVE CategoryLoop_LastMatch(_, _, _)
CategoryLoop_LastMatch(categories, i, description) ==
  IF i > Len(categories) THEN "Other"
  ELSE LET rest == CategoryLoop_LastMatch(categories, i + 1, description)
       IN IF rest # "Other" THEN rest
          ELSE IF categories[i].name # "Other" /\ KeywordLoop(categories[i].keywords, 1, description)
               THEN categories[i].name
               ELSE "Other"

\* for category, keywords in categories.items(): ...; 'Other' when nothing matched
RECURSIVE CategoryLoop(_, _, _)
CategoryLoop(categories, i, description) ==
  IF i > Len(categories) THEN "Other"
  ELSE IF categories[i].name = "Other" THEN CategoryLoop(categories, i + 1, description)
  ELSE IF KeywordLoop(categories[i].keywords, 1, description) THEN categories[i].name
  ELSE CategoryLoop(categories, i + 1, description)

\* Mutant of CategorizeRow: an unmatched row keeps the category it carried.
CategorizeRow_KeepOld(categories, row) ==
  LET c == CategoryLoop(categories, 1, row.description)
  IN [f \in (DOMAIN row) \cup {"category"} |->
        IF f = "category"
        THEN (IF c = "Other" /\ "category" \in DOMAIN row THEN row.category ELSE c)
        ELSE row[f]]

\* Body of the row loop: the row with its category key (re)assigned.
CategorizeRow(categories, row) ==
  [f \in (DOMAIN row) \cup {"category"} |->
     IF f = "category" THEN CategoryLoop(categories, 1, row.description) ELSE row[f]]

\* categorize_transactions(transactions): every description is a str.
categorize_transactions(ts) == [i \in 1..Len(ts) |-> CategorizeRow(categories_extract, ts[i])]

\* improve_categorization(df): `keyword in description` raises TypeError on
\* a missing description; the rows before it have been recategorized.
FirstMissing(d) ==
  IF \E i \in 1..Len(d) : d[i].description = NaN
  THEN CHOOSE i \in 1..Len(d) : d[i].description = NaN /\ \A j \in 1..(i - 1) : d[j].description # NaN
  ELSE Len(d) + 1

improve_categorization(d) ==
  [i \in 1..Len(d) |-> IF i < FirstMissing(d) THEN CategorizeRow(categories_clean, d[i]) ELSE d[i]]
-----------------------------------------------------------------------------
(* extract_pdf_data.parse_transactions *)

Digits == {"0", "1", "2", "3", "4", "5", "6", "7", "8", "9"}

DigitValue(c) ==
  CASE c = "0" -> 0 [] c = "1" -> 1 [] c = "2" -> 2 [] c = "3" -> 3 [] c = "4" -> 4
    [] c = "5" -> 5 [] c = "6" -> 6 [] c = "7" -> 7 [] c = "8" -> 8 [] c = "9" -> 9

\* str.strip(): leading and trailing whitespace removed.
RECURSIVE Strip(_)
Strip(s) ==
  IF s = <<>> THEN s
  ELSE IF Head(s) = " " THEN Strip(Tail(s))
  ELSE IF s[Len(s)] = " " THEN Strip(SubSeq(s, 1, Len(s) - 1))
  ELSE s

\* re.sub(r'[^\d,.]', '', amount_str)
KeepAmountChars(s) == SelectSeq(s, LAMBDA c : c \in Digits \cup {",", "."})

\* amount_str.replace(',', '')
RemoveCommas(s) == SelectSeq(s, LAMBDA c : c # ",")

\* Value of a string of digits.
RECURSIVE DigitsValue(_)
DigitsValue(s) ==
  IF s = <<>> THEN 0 ELSE DigitsValue(SubSeq(s, 1, Len(s) - 1)) * 10 + DigitValue(s[Len(s)])

\* float(s) for s made of digits and dots: a ValueError unless s has at least
\* one digit and at most one dot.  The value is in hundredths; digits after
\* the second decimal place are not represented.
ParseFloat(s) ==
  LET dots == { i \in 1..Len(s) : s[i] = "." }
  IN IF Cardinality(dots) > 1 \/ Len(s) - Cardinality(dots) = 0
     THEN [ok |-> FALSE, value |-> 0]
     ELSE IF dots = {}
     THEN [ok |-> TRUE, value |-> DigitsValue(s) * 100]
     ELSE LET d == CHOOSE i \in dots : TRUE
              frac == SubSeq(s, d + 1, Len(s)) \o <<"0", "0">>
          IN [ok |-> TRUE,
              value |-> DigitsValue(SubSeq(s, 1, d - 1)) * 100 + DigitsValue(SubSeq(frac, 1, 2))]

\* Body of `for match in matches`: the transactions the match appends (one or
\* none) and whether float() raised ValueError.
ProcessMatch(match) ==
  IF Len(match) >= 3
  THEN LET date_str == match[1]
           description == Strip(match[Len(match) - 1])
           amount_str == KeepAmountChars(Strip(match[Len(match)]))
       IN IF amount_str # <<>>
          THEN LET amount == ParseFloat(RemoveCommas(amount_str))
               IN IF amount.ok
                  THEN [raised |-> FALSE,
                        added |-> <<[date |-> date_str, description |-> description,
                                     amount |-> amount.value]>>]
                  ELSE [raised |-> TRUE, added |-> <<>>]
          ELSE [raised |-> FALSE, added |-> <<>>]
  ELSE [raised |-> FALSE, added |-> <<>>]

\* Mutant of MatchLoop: the try block encloses the loop, so a ValueError
\* ends the processing of the pattern's remaining matches.
RECURSIVE MatchLoop_TryOutside(_, _)
MatchLoop_TryOutside(ms, k) ==
  IF k > Len(ms) THEN <<>>
  ELSE IF ProcessMatch(ms[k]).raised THEN <<>>
  ELSE ProcessMatch(ms[k]).added \o MatchLoop_TryOutside(ms, k + 1)

\* for match in matches: try: ... except (ValueError, IndexError): continue
RECURSIVE MatchLoop(_, _)
MatchLoop(ms, k) ==
  IF k > Len(ms) THEN <<>>
  ELSE ProcessMatch(ms[k]).added \o MatchLoop(ms, k + 1)

\* Mutant of PatternLoop: the first pattern with a match takes precedence.
RECURSIVE PatternLoop_Precedence(_, _)
PatternLoop_Precedence(found, p) ==
  IF p > Len(found) THEN <<>>
  ELSE IF found[p] # <<>> THEN MatchLoop(found[p], 1)
  ELSE PatternLoop_Precedence(found, p + 1)

\* for pattern_num, pattern in enumerate(patterns, 1): found[p] is what
\* re.findall returned for pattern p.
RECURSIVE PatternLoop(_, _)
PatternLoop(found, p) ==
  IF p > Len(found) THEN <<>>
  ELSE MatchLoop(found[p], 1) \o PatternLoop(found, p + 1)

\* key = (t['date'], t['description'], t['amount'])
TransactionKey(t) == <<t.date, t.description, t.amount>>

\* Mutant of SeenKey: the amount is left out of the key.
SeenKey_NoAmount(t) == <<t.date, t.description>>

\* The key added to and looked up in the set seen.
SeenKey(t) == TransactionKey(t)

\* Remove duplicates: for t in transactions: if key not in seen: ...
RECURSIVE RemoveDuplicates(_, _, _)
RemoveDuplicates(ts, k, seen) ==
  IF k > Len(ts) THEN <<>>
  ELSE IF SeenKey(ts[k]) \notin seen
       THEN <<ts[k]>> \o RemoveDuplicates(ts, k + 1, seen \cup {SeenKey(ts[k])})
       ELSE RemoveDuplicates(ts, k + 1, seen)

\* parse_transactions, given the re.findall result of each pattern.
parse_transactions(found) == RemoveDuplicates(PatternLoop(found, 1), 1, {})

\* Number of entries of the list patterns.
NumPatterns == 6

\* Largest number of matches re.findall returns over all patterns together.
MaxMatches == 2

\* Groups a match is drawn from.  The description group is a lazy run that
\* may consist of whitespace only; the amount group is [\d,]+\.?\d* and so
\* may hold no digit at all.
MatchDescriptions == {Str("UBER"), Str("123 UBER"), Str("HOTEL"), Str(" ")}
MatchAmounts == {Str("1,000"), Str("1000.0"), Str("1.5"), Str(",")}

\* Tuples re.findall can return for pattern p: (date, description, amount),
\* with a date of the shape the pattern asks for, and for pattern 3
\* (date, code, description, amount).
PatternMatches(p) ==
  IF p = 2
  THEN { <<Str("2025/10/05"), x, a>> : x \in MatchDescriptions, a \in MatchAmounts }
  ELSE IF p = 3
  THEN { <<Str("05/14"), Str("123"), x, a>> : x \in MatchDescriptions, a \in MatchAmounts }
  ELSE { <<Str("05/14"), x, a>> : x \in MatchDescriptions, a \in MatchAmounts }

\* All matches of a text, tagged with their pattern, in the order the pattern
\* loop meets them.
TaggedMatches == UNION { {p} \X PatternMatches(p) : p \in 1..NumPatterns }

FindallResults ==
  { [p \in 1..NumPatterns |->
       LET own == SelectSeq(flat, LAMBDA e : e[1] = p)
       IN [i \in 1..Len(own) |-> own[i][2]]]
      : flat \in { f \in UNION { [1..n -> TaggedMatches] : n \in 0..MaxMatches } :
                     \A i, j \in 1..Len(f) : i < j => f[i][1] <= f[j][1] } }

InitParse ==
  /\ returned = <<>> /\ analysis = <<>>
  /\ pc = "parse_start"
  /\ matches \in FindallResults
  /\ transactions = <<>> /\ unique_transactions = <<>>
  /\ env = "none" /\ pdf_path = "none" /\ text = "none" /\ calls = <<>> /\ files = {}
  /\ csv = <<>> /\ df = <<>> /\ saas_df = <<>> /\ runA = <<>> /\ runB = <<>>

\* The pattern loop of parse_transactions.
CollectMatches ==
  /\ pc = "parse_start"
  /\ transactions' = PatternLoop(matches, 1)
  /\ pc' = "collected"
  /\ UNCHANGED <<env, pdf_path, text, calls, files, matches, unique_transactions, csv, df, saas_df, runA, runB, returned, analysis>>

\* The duplicate-removal loop of parse_transactions and its return.
ReturnUnique ==
  /\ pc = "collected"
  /\ unique_transactions' = RemoveDuplicates(transactions, 1, {})
  /\ pc' = "parsed"
  /\ UNCHANGED <<env, pdf_path, text, calls, files, matches, transactions, csv, df, saas_df, runA, runB, returned, analysis>>

NextParse == CollectMatches \/ ReturnUnique

SpecParse == InitParse /\ [][NextParse]_vars

-----------------------------------------------------------------------------
(* extract_pdf_data.main *)

\* Python's None: an unset environment variable, a failed extraction.
None == "None"

\* Mutant of Not: only None counts, the empty string does not.
Not_OnlyNone(v) == v = None

\* `not v` for v a str or None.
Not(v) == v = None \/ v = ""

\* os.getenv('PDF_PATH', 'your_bank_statement.pdf')
Getenv(value, default) == IF value = None THEN default ELSE value

Environments ==
  [PDF_PASSWORD : {None, "", "secret"},
   PDF_PATH : {None, "your_bank_statement.pdf", "statement.pdf"}]

\* What either PDF library can hand back: nothing, an empty text, a text.
ExtractedTexts == {None, "", "text"}

\* re.findall results of a text with at most one match, or with two matches
\* of the first pattern.
SmallFindallResults ==
  { [p \in 1..NumPatterns |-> <<>>] }
    \cup { [p \in 1..NumPatterns |-> IF p = e[1] THEN <<e[2]>> ELSE <<>>] : e \in TaggedMatches }
    \cup { [p \in 1..NumPatterns |-> IF p = 1 THEN <<m, n>> ELSE <<>>]
             : m \in PatternMatches(1), n \in PatternMatches(1) }

InitMain ==
  /\ returned = <<>> /\ analysis = <<>>
  /\ pc = "main_start"
  /\ env \in Environments
  /\ pdf_path = None /\ text = None /\ calls = <<>> /\ files = {}
  /\ matches = <<>> /\ transactions = <<>> /\ unique_transactions = <<>>
  /\ csv = <<>> /\ df = <<>> /\ saas_df = <<>> /\ runA = <<>> /\ runB = <<>>

\* main up to "Starting PDF Credit Card Analysis...": the password check with
\* its early return, and the replacement of the default path.
CheckEnvironment ==
  /\ pc = "main_start"
  /\ LET path == Getenv(env.PDF_PATH, "your_bank_statement.pdf")
         password == env.PDF_PASSWORD
     IN IF Not(password)
        THEN /\ calls' = Append(calls, "print: PDF_PASSWORD environment variable not set")
             /\ pdf_path' = path
             /\ pc' = "main_done"
        ELSE IF path = "your_bank_statement.pdf"
        THEN /\ calls' = Append(calls, "print: Using default PDF path")
             /\ pdf_path' = "bank_statement.pdf"
             /\ pc' = "extract"
        ELSE /\ calls' = calls
             /\ pdf_path' = path
             /\ pc' = "extract"
  /\ UNCHANGED <<env, text, files, matches, transactions, unique_transactions, csv, df, saas_df, runA, runB, returned, analysis>>

\* Mutant of ExtractPdfText: the second library is tried whatever came back.
ExtractPdfText_AlwaysFallback ==
  /\ pc = "extract"
  /\ calls' = Append(calls, "extract_pdf_text")
  /\ \E t \in ExtractedTexts :
       /\ text' = t
       /\ returned' = Append(returned, t)
       /\ pc' = "fallback"
  /\ UNCHANGED <<env, pdf_path, files, matches, transactions, unique_transactions, csv, df, saas_df, runA, runB, analysis>>

\* text = extract_pdf_text(pdf_path, password)
ExtractPdfText ==
  /\ pc = "extract"
  /\ calls' = Append(calls, "extract_pdf_text")
  /\ \E t \in ExtractedTexts :
       /\ text' = t
       /\ returned' = Append(returned, t)
       /\ pc' = IF Not(t) THEN "fallback" ELSE "parse"
  /\ UNCHANGED <<env, pdf_path, files, matches, transactions, unique_transactions, csv, df, saas_df, runA, runB, analysis>>

\* if not text: text = debug_pdf_content(pdf_path, password), with pdfplumber
\* importable; then the return when there is still no text.
DebugPdfContent ==
  /\ pc = "fallback"
  /\ calls' = Append(calls, "debug_pdf_content")
  /\ \E t \in ExtractedTexts :
       /\ text' = t
       /\ returned' = Append(returned, t)
       /\ pc' = IF Not(t) THEN "main_done" ELSE "parse"
  /\ UNCHANGED <<env, pdf_path, files, matches, transactions, unique_transactions, csv, df, saas_df, runA, runB, analysis>>

\* The same call when `import pdfplumber` raises ImportError: pip is run in a
\* subprocess; check_call may raise, which nothing catches, and otherwise the
\* second attempt returns a text or None.
DebugPdfContentInstall ==
  /\ pc = "fallback"
  /\ calls' = calls \o <<"debug_pdf_content", "subprocess.check_call">>
  /\ \/ /\ pc' = "crashed"
        /\ text' = text
        /\ returned' = returned
     \/ \E t \in ExtractedTexts :
          /\ text' = t
          /\ returned' = Append(returned, t)
          /\ pc' = IF Not(t) THEN "main_done" ELSE "parse"
  /\ UNCHANGED <<env, pdf_path, files, matches, transactions, unique_transactions, csv, df, saas_df, runA, runB, analysis>>

\* Mutant of ParseTransactions: main returns without saving the text.
ParseTransactions_NoDump ==
  /\ pc = "parse"
  /\ calls' = Append(calls, "parse_transactions")
  /\ \E found \in SmallFindallResults :
       /\ matches' = found
       /\ transactions' = parse_transactions(found)
       /\ files' = files
       /\ pc' = IF parse_transactions(found) = <<>> THEN "main_done" ELSE "categorize_main"
  /\ UNCHANGED <<env, pdf_path, text, unique_transactions, csv, df, saas_df, runA, runB, returned, analysis>>

\* transactions = parse_transactions(text); without transactions the text is
\* saved to extracted_text.txt and main returns.
ParseTransactions ==
  /\ pc = "parse"
  /\ calls' = Append(calls, "parse_transactions")
  /\ \E found \in SmallFindallResults :
       /\ matches' = found
       /\ transactions' = parse_transactions(found)
       /\ IF parse_transactions(found) = <<>>
          THEN files' = files \cup {"extracted_text.txt"} /\ pc' = "main_done"
          ELSE files' = files /\ pc' = "categorize_main"
  /\ UNCHANGED <<env, pdf_path, text, unique_transactions, csv, df, saas_df, runA, runB, returned, analysis>>

\* transactions = categorize_transactions(transactions)
CategorizeTransactions ==
  /\ pc = "categorize_main"
  /\ transactions' = categorize_transactions(transactions)
  /\ pc' = "analyze"
  /\ UNCHANGED <<env, pdf_path, text, calls, files, matches, unique_transactions, csv, df, saas_df, runA, runB, returned, analysis>>

\* df = pd.DataFrame(transactions); df['amount_abs'] = df['amount'].abs()
WithAmountAbs(ts) == [i \in 1..Len(ts) |-> [amount_abs |-> Abs(ts[i].amount)] @@ ts[i]]

\* df['amount_abs'].sum()
RECURSIVE SumAmountAbs(_)
SumAmountAbs(d) == IF d = <<>> THEN 0 ELSE Head(d).amount_abs + SumAmountAbs(Tail(d))

\* The rows of one group of df.groupby('category').
Group(d, c) == SelectSeq(d, LAMBDA r : r.category = c)

\* df.groupby('category')['amount_abs'].sum().to_dict(); the order
\* sort_values gives the keys is not part of the dict's value.
CategorySpending(d) ==
  [c \in { d[i].category : i \in 1..Len(d) } |-> SumAmountAbs(Group(d, c))]

\* Mutant of CategorySize: the number of distinct descriptions of a group.
CategorySize_Unique(d) ==
  [c \in { d[i].category : i \in 1..Len(d) } |->
     Cardinality({ Group(d, c)[i].description : i \in 1..Len(Group(d, c)) })]

\* df.groupby('category').size().to_dict()
CategorySize(d) ==
  [c \in { d[i].category : i \in 1..Len(d) } |-> Len(Group(d, c))]

\* The analysis analyze_spending returns with `return None, None`, written
\* as a dict without keys: like None it is false under `if analysis`.
NoAnalysis == <<>>

\* `if analysis`, for the dict or None that analyze_spending returns.
Truthy(a) == DOMAIN a # {}

\* Mutant of analyze_spending: a table of one row counts as empty.
analyze_spending_NeedsTwo(d) ==
  IF Len(d) < 2 THEN NoAnalysis
  ELSE [total_spending |-> SumAmountAbs(d),
        average_transaction |-> SumAmountAbs(d) \div Len(d),
        number_of_transactions |-> Len(d),
        category_breakdown |-> CategorySpending(d),
        transactions_by_category |-> CategorySize(d)]

\* The analysis of a table: None for an empty one, otherwise the dict.
\* Amounts are hundredths, so the mean is a quotient of hundredths cut to a
\* whole hundredth.  The entry top_transactions is left out.
analyze_spending(d) ==
  IF d = <<>> THEN NoAnalysis
  ELSE [total_spending |-> SumAmountAbs(d),
        average_transaction |-> SumAmountAbs(d) \div Len(d),
        number_of_transactions |-> Len(d),
        category_breakdown |-> CategorySpending(d),
        transactions_by_category |-> CategorySize(d)]

\* analysis, df = analyze_spending(transactions), and the test `if analysis`
\* of main: df is the list with the column amount_abs; without an analysis
\* main prints "Analysis failed" and ends.
AnalyzeSpending ==
  /\ pc = "analyze"
  /\ analysis' = analyze_spending(WithAmountAbs(transactions))
  /\ IF Truthy(analyze_spending(WithAmountAbs(transactions)))
     THEN /\ df' = WithAmountAbs(transactions)
          /\ calls' = calls
          /\ pc' = "visualize"
     ELSE /\ df' = <<>>
          /\ calls' = Append(calls, "print: Analysis failed - no valid transactions found")
          /\ pc' = "main_done"
  /\ UNCHANGED <<env, pdf_path, text, files, matches, transactions, unique_transactions, csv, saas_df, runA, runB, returned>>

\* create_visualizations(df, analysis): the chart is saved unless plotting
\* raises, which the function catches and reports.
CreateVisualizations ==
  /\ pc = "visualize"
  /\ \/ files' = files \cup {"credit_card_analysis.png"}
     \/ files' = files
  /\ pc' = "report"
  /\ UNCHANGED <<env, pdf_path, text, calls, matches, transactions, unique_transactions, csv, df, saas_df, runA, runB, returned, analysis>>

\* The decimal digits of a natural number.
RECURSIVE NatDigits(_)
NatDigits(n) ==
  LET last == CHOOSE c \in Digits : DigitValue(c) = n % 10
  IN IF n < 10 THEN <<last>> ELSE NatDigits(n \div 10) \o <<last>>

\* Mutant of FormatFloat: the fraction is not written.
FormatFloat_Integer(a) ==
  (IF a < 0 THEN <<"-">> ELSE <<>>) \o NatDigits(Abs(a) \div 100)

\* The text to_csv writes for a float: its shortest repr, which for an
\* amount of hundredths has one or two decimals.
FormatFloat(a) ==
  LET frac == Abs(a) % 100
  IN (IF a < 0 THEN <<"-">> ELSE <<>>) \o NatDigits(Abs(a) \div 100) \o <<".">>
       \o (IF frac % 10 = 0 THEN NatDigits(frac \div 10)
           ELSE NatDigits(frac \div 10) \o NatDigits(frac % 10))

\* df.to_csv('transactions.csv', index=False): one line of fields per row.
\* No description here holds a comma, a quote or a newline, so no field is
\* quoted.
to_csv(d) ==
  [i \in 1..Len(d) |->
     [date |-> d[i].date, description |-> d[i].description,
      amount |-> FormatFloat(d[i].amount), amount_abs |-> FormatFloat(d[i].amount_abs),
      category |-> d[i].category]]

\* report = generate_report(analysis); the report and the CSV are written
\* and "ANALYSIS COMPLETE!" is printed.
SaveOutputs ==
  /\ pc = "report"
  /\ files' = files \cup {"credit_card_analysis_report.txt", "transactions.csv"}
  /\ csv' = to_csv(df)
  /\ calls' = Append(calls, "print: ANALYSIS COMPLETE!")
  /\ pc' = "main_done"
  /\ UNCHANGED <<env, pdf_path, text, matches, transactions, unique_transactions, df, saas_df, runA, runB, returned, analysis>>

NextMain ==
  \/ CheckEnvironment \/ ExtractPdfText \/ DebugPdfContent \/ DebugPdfContentInstall
  \/ ParseTransactions \/ CategorizeTransactions \/ AnalyzeSpending
  \/ CreateVisualizations \/ SaveOutputs

SpecMain == InitMain /\ [][NextMain]_vars

\* main is straight-line code: a run that has not ended or aborted takes
\* its next step.
SpecMainFair == SpecMain /\ WF_vars(NextMain)

-----------------------------------------------------------------------------
(* Pattern 4, "transactions with negative amounts", on a statement line:    *)
(* a date dd/dd, whitespace, a lazy description group, whitespace, an       *)
(* optional minus sign and the amount group.                                *)

Letters == { LowerCase[k] : k \in 1..26 } \cup { UpperCase[k] : k \in 1..26 }

\* \s, and the ASCII part of the class of the description group.
IsSpace(c) == c = " "
InDescriptionClass(c) == c \in Letters \cup Digits \cup {"_", " ", "-", "*", "."}

\* Last position of the longest run, from position a on, of characters of set.
RECURSIVE RunEnd(_, _, _)
RunEnd(s, a, set) ==
  IF a <= Len(s) /\ s[a] \in set THEN RunEnd(s, a + 1, set) ELSE a - 1

\* Where the amount group begins when \s+\-? matches right after
\* position j, or 0: a run of whitespace, an optional minus sign that stays
\* outside the group, and then a digit or comma.
AmountStart(s, j) ==
  LET w == RunEnd(s, j + 1, {" "})
      a == IF w + 1 <= Len(s) /\ s[w + 1] = "-" THEN w + 2 ELSE w + 1
  IN IF w >= j + 1 /\ a <= Len(s) /\ s[a] \in Digits \cup {","} THEN a ELSE 0

\* Last position of the amount group that begins at a.
AmountEnd(s, a) ==
  LET e == RunEnd(s, a, Digits \cup {","})
  IN IF e + 1 <= Len(s) /\ s[e + 1] = "." THEN RunEnd(s, e + 2, Digits) ELSE e

\* The description group may span positions i..j: whitespace from position 6
\* up to i, characters of the class from i to j, and the amount after j.
DescriptionSpan(s, i, j) ==
  /\ 7 <= i /\ i <= j /\ j < Len(s)
  /\ \A k \in 6..(i - 1) : IsSpace(s[k])
  /\ \A k \in i..j : InDescriptionClass(s[k])
  /\ AmountStart(s, j) > 0

\* The groups of the match of pattern 4 that begins at the head of the line,
\* or <<>>: the first \s+ is greedy (latest start i), the description is
\* lazy (earliest end j).
Pattern4Groups(s) ==
  IF /\ Len(s) >= 6
     /\ s[1] \in Digits /\ s[2] \in Digits /\ s[3] = "/" /\ s[4] \in Digits /\ s[5] \in Digits
     /\ \E i, j \in 7..Len(s) : DescriptionSpan(s, i, j)
  THEN LET i == CHOOSE i \in 7..Len(s) :
                  /\ \E j \in 7..Len(s) : DescriptionSpan(s, i, j)
                  /\ \A m \in (i + 1)..Len(s) : \A j \in 7..Len(s) : ~DescriptionSpan(s, m, j)
           j == CHOOSE j \in 7..Len(s) :
                  /\ DescriptionSpan(s, i, j)
                  /\ \A m \in 7..(j - 1) : ~DescriptionSpan(s, i, m)
           a == AmountStart(s, j)
       IN <<SubSeq(s, 1, 5), SubSeq(s, i, j), SubSeq(s, a, AmountEnd(s, a))>>
  ELSE <<>>

\* One-line statement texts: date, description and amount, the amount with
\* or without a minus sign.
StatementLines ==
  { d \o w \o x \o w \o m \o a :
      d \in {Str("05/14"), Str("10/05")},
      w \in {Str(" "), Str("  ")},
      x \in {Str("UBER"), Str("A-1"), Str("7-11 X")},
      m \in {Str(""), Str("-")},
      a \in {Str("1,000"), Str("1.5"), Str("20")} }

InitSigned ==
  /\ returned = <<>> /\ analysis = <<>>
  /\ pc = "signed_start"
  /\ text \in StatementLines
  /\ env = "none" /\ pdf_path = "none" /\ calls = <<>> /\ files = {}
  /\ matches = <<>> /\ transactions = <<>> /\ unique_transactions = <<>>
  /\ csv = <<>> /\ df = <<>> /\ saas_df = <<>> /\ runA = <<>> /\ runB = <<>>

\* matches = re.findall(pattern, text, ...) for pattern 4.
FindallPattern4 ==
  /\ pc = "signed_start"
  /\ matches' = [p \in 1..NumPatterns |->
                   IF p = 4 /\ Pattern4Groups(text) # <<>> THEN <<Pattern4Groups(text)>> ELSE <<>>]
  /\ pc' = "signed_found"
  /\ UNCHANGED <<env, pdf_path, text, calls, files, transactions, unique_transactions, csv, df, saas_df, runA, runB, returned, analysis>>

\* The match loop and the duplicate removal of parse_transactions.
ParseSigned ==
  /\ pc = "signed_found"
  /\ transactions' = parse_transactions(matches)
  /\ pc' = "signed_parsed"
  /\ UNCHANGED <<env, pdf_path, text, calls, files, matches, unique_transactions, csv, df, saas_df, runA, runB, returned, analysis>>

\* analyze_spending: df['amount_abs'] = df['amount'].abs()
AnalyzeSigned ==
  /\ pc = "signed_parsed"
  /\ df' = WithAmountAbs(transactions)
  /\ pc' = "signed_analyzed"
  /\ UNCHANGED <<env, pdf_path, text, calls, files, matches, transactions, unique_transactions, csv, saas_df, runA, runB, returned, analysis>>

NextSigned == FindallPattern4 \/ ParseSigned \/ AnalyzeSigned

SpecSigned == InitSigned /\ [][NextSigned]_vars

-----------------------------------------------------------------------------
(* clean_analysis.py *)

\* Largest number of rows of a CSV file.
MaxRows == 2

\* df['date'].str.contains('0/0|14/05', na=False): a regular-expression
\* search, true when either alternative occurs anywhere in the value.
DateIsInvalid(date) ==
  date # NaN /\ (Contains(date, Str("0/0")) \/ Contains(date, Str("14/05")))

\* Mutant of AmountIsRealistic: the ceiling itself is let through.
AmountIsRealistic_Inclusive(amount_abs) == amount_abs <= 100000 * 100

\* df['amount_abs'] < 100000
AmountIsRealistic(amount_abs) == amount_abs < 100000 * 100

\* df['description'].str.contains('cid:', na=False)
IsGarbled(description) == description # NaN /\ Contains(description, Str("cid:"))

\* The triple drop_duplicates compares.
Key(r) == <<r.date, r.description, r.amount>>

\* Mutant of drop_duplicates: keep='last'.
RECURSIVE drop_duplicates_KeepLast(_)
drop_duplicates_KeepLast(d) ==
  IF d = <<>> THEN <<>>
  ELSE IF \E j \in 2..Len(d) : Key(d[j]) = Key(d[1])
       THEN drop_duplicates_KeepLast(Tail(d))
       ELSE <<d[1]>> \o drop_duplicates_KeepLast(Tail(d))

\* df.drop_duplicates(subset=['date', 'description', 'amount'], keep='first')
RECURSIVE drop_duplicates(_)
drop_duplicates(d) ==
  IF d = <<>> THEN <<>>
  ELSE LET front == SubSeq(d, 1, Len(d) - 1)
           last == d[Len(d)]
       IN IF \E j \in 1..Len(front) : Key(front[j]) = Key(last)
          THEN drop_duplicates(front)
          ELSE Append(drop_duplicates(front), last)

DateFilter(d) == SelectSeq(d, LAMBDA r : ~DateIsInvalid(r.date))

\* Mutant of AmountFilter: the ceiling is the largest amount of the table.
AmountFilter_BelowLargest(d) ==
  SelectSeq(d, LAMBDA r : \E i \in 1..Len(d) : r.amount_abs < d[i].amount_abs)

AmountFilter(d) == SelectSeq(d, LAMBDA r : AmountIsRealistic(r.amount_abs))
GarbledFilter(d) == SelectSeq(d, LAMBDA r : ~IsGarbled(r.description))

\* The .str accessor raises AttributeError on a column that holds no string:
\* read_csv types a non-empty column of missing values as float64.
StrAccessorFails(d) == Len(d) > 0 /\ \A i \in 1..Len(d) : d[i].description = NaN

clean_transactions(d) == drop_duplicates(GarbledFilter(AmountFilter(DateFilter(d))))

\* Values a transactions.csv row is drawn from.
CsvDates == {Str("05/14"), Str("10/05"), Str("14/05"), Str("0/0")}
CsvDescriptions == {Str("UBER"), Str("cid:7"), NaN}
CsvAmounts == {99999 * 100, 100000 * 100, -(100000 * 100)}

\* A row as extract_pdf_data.main wrote it: amount_abs is abs(amount) and
\* the category is the one categorize_transactions gave the description.
CsvRows ==
  { [date |-> d, description |-> x, amount |-> a, amount_abs |-> Abs(a),
     category |-> CategoryLoop(categories_extract, 1, IF x = NaN THEN <<>> ELSE x)]
      : d \in CsvDates, x \in CsvDescriptions, a \in CsvAmounts }

\* pd.read_csv labels the rows 0, 1, ... in file order.
WithIndex(rows) == [i \in 1..Len(rows) |-> [idx |-> i - 1] @@ rows[i]]

CsvTables == UNION { [1..n -> CsvRows] : n \in 0..MaxRows }

InitClean ==
  /\ returned = <<>> /\ analysis = <<>>
  /\ pc = "clean_start"
  /\ \E t \in CsvTables : csv = WithIndex(t)
  /\ df = <<>>
  /\ env = "none" /\ pdf_path = "none" /\ text = "none" /\ calls = <<>> /\ files = {}
  /\ matches = <<>> /\ transactions = <<>> /\ unique_transactions = <<>> /\ saas_df = <<>> /\ runA = <<>> /\ runB = <<>>

\* df = clean_transactions('transactions.csv')
CleanTransactions ==
  /\ pc = "clean_start"
  /\ IF StrAccessorFails(csv)
     THEN pc' = "crashed" /\ df' = df
     ELSE pc' = "cleaned" /\ df' = clean_transactions(csv)
  /\ UNCHANGED <<env, pdf_path, text, calls, files, matches, transactions, unique_transactions, csv, saas_df, runA, runB, returned, analysis>>

\* if len(df) == 0: print(...); return
NoValidTransactions ==
  /\ pc = "cleaned" /\ Len(df) = 0
  /\ pc' = "clean_done"
  /\ UNCHANGED <<env, pdf_path, text, calls, files, matches, transactions, unique_transactions, csv, df, saas_df, runA, runB, returned, analysis>>

\* df = improve_categorization(df)
ImproveCategorization ==
  /\ pc = "cleaned" /\ Len(df) > 0
  /\ df' = improve_categorization(df)
  /\ pc' = IF FirstMissing(df) <= Len(df) THEN "crashed" ELSE "recategorized"
  /\ UNCHANGED <<env, pdf_path, text, calls, files, matches, transactions, unique_transactions, csv, saas_df, runA, runB, returned, analysis>>

NextClean == CleanTransactions \/ NoValidTransactions \/ ImproveCategorization

SpecClean == InitClean /\ [][NextClean]_vars
-----------------------------------------------------------------------------
(* The cleaning script run on the snapshot extract_pdf_data.main wrote *)

\* Field texts pd.read_csv takes for a missing value.
NaMarkers == {<<>>, Str("NA"), Str("N/A"), Str("NaN"), Str("nan"), Str("NULL"), Str("null")}

\* A text field as pd.read_csv hands it back.
ReadText(s) == IF s \in NaMarkers THEN NaN ELSE s

\* A float field as pd.read_csv parses it.
ReadFloat(s) ==
  IF s # <<>> /\ Head(s) = "-" THEN -(ParseFloat(Tail(s)).value) ELSE ParseFloat(s).value

\* pd.read_csv('transactions.csv'): the columns date, description and
\* category hold text here (no column of the snapshot is all numbers),
\* amount and amount_abs are float columns.
read_csv(rows) ==
  WithIndex([i \in 1..Len(rows) |->
               [date |-> ReadText(rows[i].date), description |-> ReadText(rows[i].description),
                amount |-> ReadFloat(rows[i].amount), amount_abs |-> ReadFloat(rows[i].amount_abs),
                category |-> rows[i].category]])

\* clean_analysis.main started after extract_pdf_data.main wrote the
\* snapshot: df = clean_transactions('transactions.csv').
CleanSnapshot ==
  /\ pc = "main_done" /\ "transactions.csv" \in files
  /\ calls' = Append(calls, "clean_transactions")
  /\ IF StrAccessorFails(read_csv(csv))
     THEN pc' = "crashed" /\ df' = df
     ELSE pc' = "cleaned" /\ df' = clean_transactions(read_csv(csv))
  /\ UNCHANGED <<env, pdf_path, text, files, matches, transactions, unique_transactions, csv, saas_df, runA, runB, returned, analysis>>

NextPipeline == NextMain \/ CleanSnapshot \/ NoValidTransactions \/ ImproveCategorization

SpecPipeline == InitMain /\ [][NextPipeline]_vars
-----------------------------------------------------------------------------
(* saas_analysis.load_and_filter_saas_data *)

\* str.upper() and str.lower(), character by character.
Upper(s) ==
  [i \in 1..Len(s) |->
     IF \E k \in 1..26 : LowerCase[k] = s[i]
     THEN UpperCase[CHOOSE k \in 1..26 : LowerCase[k] = s[i]]
     ELSE s[i]]

Lower(s) ==
  [i \in 1..Len(s) |->
     IF \E k \in 1..26 : UpperCase[k] = s[i]
     THEN LowerCase[CHOOSE k \in 1..26 : UpperCase[k] = s[i]]
     ELSE s[i]]

\* The inner loops of the row loop: the category and keyword of the first
\* keyword found in the upper-cased description, or found = FALSE.
RECURSIVE SaasKeywordLoop(_, _, _)
SaasKeywordLoop(keywords, j, description) ==
  IF j > Len(keywords) THEN 0
  ELSE IF Contains(description, keywords[j]) THEN j
  ELSE SaasKeywordLoop(keywords, j + 1, description)

RECURSIVE SaasCategoryLoop(_, _)
SaasCategoryLoop(i, description) ==
  IF i > Len(saas_keywords) THEN [found |-> FALSE]
  ELSE LET j == SaasKeywordLoop(saas_keywords[i].keywords, 1, description)
       IN IF j > 0
          THEN [found |-> TRUE, saas_category |-> saas_keywords[i].name,
                saas_service |-> Lower(saas_keywords[i].keywords[j])]
          ELSE SaasCategoryLoop(i + 1, description)

\* for idx, row in df.iterrows(): the copies appended to saas_transactions.
RECURSIVE SaasRowLoop(_, _)
SaasRowLoop(d, k) ==
  IF k > Len(d) THEN <<>>
  ELSE LET hit == SaasCategoryLoop(1, Upper(d[k].description))
       IN IF hit.found
          THEN <<[saas_category |-> hit.saas_category, saas_service |-> hit.saas_service] @@ d[k]>>
                 \o SaasRowLoop(d, k + 1)
          ELSE SaasRowLoop(d, k + 1)

\* str.replace('^\d{2}/\d{2} ', '', regex=True)
StripDatePrefix(x) ==
  IF /\ Len(x) >= 6
     /\ x[1] \in Digits /\ x[2] \in Digits /\ x[3] = "/"
     /\ x[4] \in Digits /\ x[5] \in Digits /\ x[6] = " "
  THEN SubSeq(x, 7, Len(x))
  ELSE x

\* Mutant of unique_id: the identifier is the description alone.
unique_id_NoAmount(r) == StripDatePrefix(r.description)

\* saas_df['unique_id']: the description without its date prefix, '_', and
\* the text of amount_abs (distinct numbers have distinct texts).
unique_id(r) == StripDatePrefix(r.description) \o <<"_", r.amount_abs>>

\* drop_duplicates(subset=['unique_id'], keep='first')
RECURSIVE DropDuplicateIds(_)
DropDuplicateIds(d) ==
  IF d = <<>> THEN <<>>
  ELSE LET front == SubSeq(d, 1, Len(d) - 1)
           last == d[Len(d)]
       IN IF \E j \in 1..Len(front) : unique_id(front[j]) = unique_id(last)
          THEN DropDuplicateIds(front)
          ELSE Append(DropDuplicateIds(front), last)

load_and_filter_saas_data(d) == DropDuplicateIds(SaasRowLoop(d, 1))

\* Values a clean_transactions.csv row is drawn from.
SaasDates == {Str("05/14"), Str("06/14")}
SaasDescriptions ==
  {Str("CURSOR USAGE"), Str("Cursor usage"), Str("05/14 CURSOR USAGE"), Str("Colab Pro"),
   Str("UBER")}
SaasAmounts == {2000, -2000, 5000}

SaasRows ==
  { [date |-> d, description |-> x, amount |-> a, amount_abs |-> Abs(a),
     category |-> CategoryLoop(categories_clean, 1, x)]
      : d \in SaasDates, x \in SaasDescriptions, a \in SaasAmounts }

\* clean_analysis.main writes a non-empty frame whose rows differ pairwise in
\* the triple (date, description, amount).
SaasTables ==
  { t \in UNION { [1..n -> SaasRows] : n \in 1..MaxRows } :
      \A i, j \in 1..Len(t) : i < j => Key(t[i]) # Key(t[j]) }

InitSaas ==
  /\ returned = <<>> /\ analysis = <<>>
  /\ pc = "saas_start"
  /\ \E t \in SaasTables : csv = WithIndex(t)
  /\ saas_df = <<>> /\ df = <<>>
  /\ env = "none" /\ pdf_path = "none" /\ text = "none" /\ calls = <<>> /\ files = {}
  /\ matches = <<>> /\ transactions = <<>> /\ unique_transactions = <<>>
  /\ runA = <<>> /\ runB = <<>>

\* saas_df = load_and_filter_saas_data('clean_transactions.csv')
LoadAndFilterSaasData ==
  /\ pc = "saas_start"
  /\ saas_df' = load_and_filter_saas_data(csv)
  /\ pc' = "saas_loaded"
  /\ UNCHANGED <<env, pdf_path, text, calls, files, matches, transactions, unique_transactions, csv, df, runA, runB, returned, analysis>>

\* if saas_df.empty: print(...); return
NoSaasData ==
  /\ pc = "saas_loaded" /\ Len(saas_df) = 0
  /\ pc' = "saas_done"
  /\ UNCHANGED <<env, pdf_path, text, calls, files, matches, transactions, unique_transactions, csv, df, saas_df, runA, runB, returned, analysis>>

NextSaas == LoadAndFilterSaasData \/ NoSaasData

SpecSaas == InitSaas /\ [][NextSaas]_vars

-----------------------------------------------------------------------------
(* saas_analysis.extract_service_details: detect_subscription_type *)

\* The three labels: usage-based billing, monthly subscription, one-time or
\* other.
UsageBased == <<"u6309", "u4F7F", "u7528", "u91CF", "u8A08", "u8CBB">>
MonthlySubscription == <<"u6708", "u5EA6", "u8A02", "u95B1">>
OneTimeOrOther == <<"u4E00", "u6B21", "u6027", "/", "u5176", "u4ED6">>

\* Mutant of detect_subscription_type: the plan words are tested before
\* 'USAGE'.
detect_subscription_type_PlanFirst(description) ==
  LET desc_upper == Upper(description)
  IN IF \E word \in {Str("PRO"), Str("PREMIUM"), Str("PLUS")} : Contains(desc_upper, word)
     THEN MonthlySubscription
     ELSE IF Contains(desc_upper, Str("USAGE")) THEN UsageBased
     ELSE IF Contains(desc_upper, Str("SUBSCR")) \/ Contains(desc_upper, Str("SUBSCRIPTION"))
     THEN MonthlySubscription
     ELSE OneTimeOrOther

detect_subscription_type(description) ==
  LET desc_upper == Upper(description)
  IN IF Contains(desc_upper, Str("USAGE")) THEN UsageBased
     ELSE IF Contains(desc_upper, Str("SUBSCR")) \/ Contains(desc_upper, Str("SUBSCRIPTION"))
     THEN MonthlySubscription
     ELSE IF \E word \in {Str("PRO"), Str("PREMIUM"), Str("PLUS")} : Contains(desc_upper, word)
     THEN MonthlySubscription
     ELSE OneTimeOrOther

\* Largest number of fragments a description is put together from.
MaxFragments == 2

Fragments ==
  {Str("USAGE"), Str("usage"), Str("SUBSCR"), Str("PRO"), Str("Pro"), Str("PREMIUM"),
   Str("PLUS"), Str("CURSOR"), Str(" ")}

RECURSIVE Concat(_)
Concat(parts) == IF parts = <<>> THEN <<>> ELSE Head(parts) \o Concat(Tail(parts))

SubscriptionDescriptions ==
  { Concat(parts) : parts \in UNION { [1..n -> Fragments] : n \in 0..MaxFragments } }

InitSubscription ==
  /\ pc = "detect_start"
  /\ text \in SubscriptionDescriptions
  /\ returned = <<>> /\ analysis = <<>>
  /\ env = "none" /\ pdf_path = "none" /\ calls = <<>> /\ files = {}
  /\ matches = <<>> /\ transactions = <<>> /\ unique_transactions = <<>>
  /\ csv = <<>> /\ df = <<>> /\ saas_df = <<>> /\ runA = <<>> /\ runB = <<>>

\* saas_df['description'].apply(detect_subscription_type), for one value.
DetectSubscriptionType ==
  /\ pc = "detect_start"
  /\ returned' = <<detect_subscription_type(text)>>
  /\ pc' = "detected"
  /\ UNCHANGED <<env, pdf_path, text, calls, files, matches, transactions, unique_transactions, csv, df, saas_df, runA, runB, analysis>>

NextSubscription == DetectSubscriptionType

SpecSubscription == InitSubscription /\ [][NextSubscription]_vars

-----------------------------------------------------------------------------
(* Properties of clean_transactions *)

\* clean_transactions has returned its frame.
CleanReturned == pc \in {"cleaned", "clean_done", "recategorized"}

\* The input row r is a row of df.
InDf(r) == \E i \in 1..Len(df) : df[i].idx = r.idx

\* The marker c, i, d, : occurs in the description.
HasMarker(x) ==
  /\ x # NaN
  /\ \E i \in 1..(Len(x) - 3) : x[i] = "c" /\ x[i + 1] = "i" /\ x[i + 2] = "d" /\ x[i + 3] = ":"

\* The row passes the date, amount and marker filters of the code.
PassesFilters(r) ==
  ~DateIsInvalid(r.date) /\ AmountIsRealistic(r.amount_abs) /\ ~IsGarbled(r.description)

\* An earlier input row that passes the filters carries the same triple.
DuplicatesEarlier(r) ==
  \E k \in 1..Len(csv) : csv[k].idx < r.idx /\ PassesFilters(csv[k]) /\ Key(csv[k]) = Key(r)

\* C4: a row whose absolute amount is at least 100,000 or whose description
\* contains 'cid:' is not in the cleaned frame; a row below 100,000 without
\* the marker is missing only because of the date or the duplicate rule.
C4_CeilingAndMarker ==
  CleanReturned =>
    \A k \in 1..Len(csv) :
      LET r == csv[k] IN
        /\ (Abs(r.amount) >= 100000 * 100 \/ HasMarker(r.description)) => ~InDf(r)
        /\ (Abs(r.amount) < 100000 * 100 /\ ~HasMarker(r.description) /\ ~InDf(r))
             => (DateIsInvalid(r.date) \/ DuplicatesEarlier(r))

\* A row of exactly 100,000 and a row of 99,999 with the marker were both
\* removed, and a row of 99,999 without the marker would be kept.
W_C4 ==
  /\ pc = "cleaned"
  /\ \E k, m \in 1..Len(csv) :
       /\ csv[k].amount = 100000 * 100 /\ ~HasMarker(csv[k].description)
       /\ ~DateIsInvalid(csv[k].date) /\ ~InDf(csv[k])
       /\ csv[m].amount = 99999 * 100 /\ HasMarker(csv[m].description)
       /\ ~DateIsInvalid(csv[m].date) /\ ~InDf(csv[m])

\* The two date tokens the filter is written for.
KnownBadDate(date) == date \in {Str("0/0"), Str("14/05")}

\* C5: the date filter removes exactly the rows whose date is '0/0' or
\* '14/05'; a row with any other date is missing only because of the amount,
\* marker or duplicate rule.
C5_DateFilterExact ==
  CleanReturned =>
    \A k \in 1..Len(csv) :
      LET r == csv[k] IN
        /\ KnownBadDate(r.date) => ~InDf(r)
        /\ (~KnownBadDate(r.date) /\ ~InDf(r))
             => (~AmountIsRealistic(r.amount_abs) \/ IsGarbled(r.description) \/ DuplicatesEarlier(r))

\* C6: the cleaned frame has no two rows with the same triple, keeps the
\* input order, keeps for each triple the first input row that passes the
\* filters, and keeps every filter-passing row whose triple is unique.
C6_DropDuplicates ==
  CleanReturned =>
    /\ \A i, j \in 1..Len(df) : i < j => (Key(df[i]) # Key(df[j]) /\ df[i].idx < df[j].idx)
    /\ \A i \in 1..Len(df) :
         /\ PassesFilters(df[i]) /\ Key(csv[df[i].idx + 1]) = Key(df[i])
         /\ ~DuplicatesEarlier(df[i])
    /\ \A k \in 1..Len(csv) :
         (PassesFilters(csv[k]) /\ \A m \in 1..Len(csv) : m # k => Key(csv[m]) # Key(csv[k]))
           => InDf(csv[k])

\* Two input rows carry the same triple and pass the filters: the first one
\* is kept and the second one is dropped.
W_C6 ==
  /\ pc = "cleaned"
  /\ \E k, m \in 1..Len(csv) :
       /\ k < m /\ Key(csv[k]) = Key(csv[m]) /\ PassesFilters(csv[k])
       /\ InDf(csv[k]) /\ ~InDf(csv[m])
-----------------------------------------------------------------------------
(* Categorization of arbitrary batches, twice over *)

\* Largest number of rows of the first batch.
MaxBatch == 2

\* Descriptions to categorize: a keyword, a keyword of a later category ahead
\* of one of an earlier category, a keyword in the wrong letter case, a
\* keyword that contains a keyword of an earlier category (in the encoding of
\* either table), and no keyword at all.
Descriptions ==
  { Str("UBER"), Str("ATM UBER"), Str("uber"), Str("HOTEL ATM"), Str("LINE Ads ATT"),
    <<"u98EF", "u5E97">>,
    <<"u00C8", "u00A3", "u00D8", "u00C2", "u222B", "u00F3">>,
    <<>> }

\* Category values a row of transactions.csv may carry before recategorization.
PriorCategories == {"Other", "Shopping"}

\* Input rows of a run of fn.
InputRows(fn) ==
  IF fn = "categorize_transactions"
  THEN { [description |-> x] : x \in Descriptions }
  ELSE { [description |-> x, category |-> c] : x \in Descriptions, c \in PriorCategories }

Batches(fn, n) == UNION { [1..k -> InputRows(fn)] : k \in 1..n }

\* The keyword table fn uses.
TableOf(fn) == IF fn = "categorize_transactions" THEN categories_extract ELSE categories_clean

InitCategorize ==
  /\ returned = <<>> /\ analysis = <<>>
  /\ pc = "categorize"
  /\ \E fn \in {"categorize_transactions", "improve_categorization"} :
       /\ \E b \in Batches(fn, MaxBatch) : runA = [fn |-> fn, rows |-> b, done |-> FALSE]
       /\ \E b \in Batches(fn, 1) : runB = [fn |-> fn, rows |-> b, done |-> FALSE]
  /\ env = "none" /\ pdf_path = "none" /\ text = "none" /\ calls = <<>> /\ files = {}
  /\ matches = <<>> /\ transactions = <<>> /\ unique_transactions = <<>> /\ csv = <<>> /\ df = <<>> /\ saas_df = <<>>

\* The result of a run of fn over its batch.
Ran(run) ==
  [run EXCEPT !.done = TRUE,
              !.rows = IF run.fn = "categorize_transactions"
                       THEN categorize_transactions(run.rows)
                       ELSE improve_categorization(run.rows)]

\* First run of categorize_transactions / improve_categorization.
RunFirst ==
  /\ pc = "categorize" /\ ~runA.done
  /\ runA' = Ran(runA)
  /\ UNCHANGED <<pc, env, pdf_path, text, calls, files, matches, transactions, unique_transactions, csv, df, saas_df, runB, returned, analysis>>

\* Second, independent run of the same function.
RunSecond ==
  /\ pc = "categorize" /\ ~runB.done
  /\ runB' = Ran(runB)
  /\ UNCHANGED <<pc, env, pdf_path, text, calls, files, matches, transactions, unique_transactions, csv, df, saas_df, runA, returned, analysis>>

NextCategorize == RunFirst \/ RunSecond

SpecCategorize == InitCategorize /\ [][NextCategorize]_vars

\* Category i of the table has a keyword that occurs in the description.
Matches(table, i, x) ==
  \E k \in 1..Len(table[i].keywords) : Contains(x, table[i].keywords[k])

\* c is the first category in table order with a keyword in x, or 'Other'
\* when no category has one.
FirstMatchWins(table, x, c) ==
  IF \E i \in 1..Len(table) : Matches(table, i, x)
  THEN \E i \in 1..Len(table) :
         /\ table[i].name = c /\ Matches(table, i, x)
         /\ \A j \in 1..(i - 1) : ~Matches(table, j, x)
  ELSE c = "Other"

\* C1: after categorize_transactions or improve_categorization every row has
\* the first category, in table order, with a keyword occurring in its
\* description, and 'Other' when no keyword occurs.
C1_FirstMatchWins ==
  \A run \in {runA, runB} :
    (pc = "categorize" /\ run.done) =>
      \A i \in 1..Len(run.rows) :
        FirstMatchWins(TableOf(run.fn), run.rows[i].description, run.rows[i].category)

\* A categorized description holds keywords of two categories, the keyword of
\* the later category standing first in the text, and got the earlier category.
W_C1 ==
  /\ pc = "categorize" /\ runA.done
  /\ \E i \in 1..Len(runA.rows) :
       /\ runA.rows[i].description = Str("ATM UBER")
       /\ runA.rows[i].category = "Transportation"
  /\ \E i \in 1..Len(runA.rows) :
       /\ runA.rows[i].description = Str("uber")
       /\ runA.rows[i].category = "Other"

\* C2: two runs with the same keyword table give a description the same
\* category, whatever else the batches hold, wherever the row stands and
\* whatever category it carried before.
C2_Deterministic ==
  (pc = "categorize" /\ runA.done /\ runB.done) =>
    \A i \in 1..Len(runA.rows) : \A j \in 1..Len(runB.rows) :
      runA.rows[i].description = runB.rows[j].description
        => runA.rows[i].category = runB.rows[j].category

\* Both runs categorized the same description, which stood second in a batch
\* of two in one run and alone in the other.
W_C2 ==
  /\ pc = "categorize" /\ runA.done /\ runB.done
  /\ runA.fn = "improve_categorization"
  /\ Len(runA.rows) = 2
  /\ runA.rows[2].description = runB.rows[1].description
  /\ runA.rows[1].description # runB.rows[1].description
  /\ runA.rows[2].category = runB.rows[1].category
-----------------------------------------------------------------------------
(* Properties of parse_transactions *)

\* Positions of the list ts that hold the triple key.
Occurrences(ts, key) == { i \in 1..Len(ts) : TransactionKey(ts[i]) = key }

FirstOccurrence(ts, key) ==
  CHOOSE i \in Occurrences(ts, key) : \A j \in Occurrences(ts, key) : i <= j

\* C3: every distinct triple of the collected list is returned exactly once,
\* the returned triples stand in the order of their first occurrences, and
\* nothing is returned that was not collected.
C3_DedupLosesNothing ==
  pc = "parsed" =>
    /\ \A i \in 1..Len(transactions) :
         Cardinality(Occurrences(unique_transactions, TransactionKey(transactions[i]))) = 1
    /\ \A i \in 1..Len(unique_transactions) :
         Occurrences(transactions, TransactionKey(unique_transactions[i])) # {}
    /\ \A i, j \in 1..Len(unique_transactions) :
         i < j => FirstOccurrence(transactions, TransactionKey(unique_transactions[i]))
                    < FirstOccurrence(transactions, TransactionKey(unique_transactions[j]))

\* Two collected transactions agree on date and description and differ in
\* the amount, and both were returned.
W_C3 ==
  /\ pc = "parsed"
  /\ Len(transactions) = 2 /\ Len(unique_transactions) = 2
  /\ transactions[1].date = transactions[2].date
  /\ transactions[1].description = transactions[2].description
  /\ transactions[1].amount # transactions[2].amount

\* The amount group of a match holds a number: after the commas are dropped
\* there is a digit and at most one dot.
Convertible(match) ==
  LET a == RemoveCommas(match[Len(match)])
  IN /\ \E i \in 1..Len(a) : a[i] \in Digits
     /\ Cardinality({ i \in 1..Len(a) : a[i] = "." }) <= 1

\* The convertible matches of pattern p, in order.
Good(p) == SelectSeq(matches[p], Convertible)

\* Number of convertible matches of the patterns before p.
Before(p) ==
  LET RECURSIVE Sum(_)
      Sum(q) == IF q = 0 THEN 0 ELSE Len(Good(q)) + Sum(q - 1)
  IN Sum(p - 1)

\* The transaction of a match is made of its first group, its stripped
\* last-but-one group and the number its last group denotes.
IsTransactionOf(t, match) ==
  /\ t.date = match[1]
  /\ t.description = Strip(match[Len(match) - 1])
  /\ t.amount = ParseFloat(RemoveCommas(match[Len(match)])).value

\* C8: the collected list holds one transaction for every convertible match of
\* every pattern, pattern by pattern in list order, whatever the earlier
\* patterns matched; the returned list has one entry per distinct triple.
C8_EveryMatchOfEveryPattern ==
  pc \in {"collected", "parsed"} =>
    /\ Len(transactions) = Before(NumPatterns + 1)
    /\ \A p \in 1..NumPatterns : \A k \in 1..Len(Good(p)) :
         IsTransactionOf(transactions[Before(p) + k], Good(p)[k])
    /\ pc = "parsed" =>
         Len(unique_transactions)
           = Cardinality({ TransactionKey(transactions[i]) : i \in 1..Len(transactions) })

\* Pattern 1 and pattern 3 both matched; their transactions differ in the
\* description only and both were returned.
W_C8 ==
  /\ pc = "parsed"
  /\ Len(matches[1]) = 1 /\ Len(matches[3]) = 1
  /\ Len(unique_transactions) = 2
  /\ unique_transactions[1].description = Str("123 UBER")
  /\ unique_transactions[2].description = Str("UBER")
  /\ unique_transactions[1].amount = unique_transactions[2].amount

\* The findall results without match k of pattern p.
Without(p, k) ==
  [matches EXCEPT ![p] = SubSeq(matches[p], 1, k - 1) \o SubSeq(matches[p], k + 1, Len(matches[p]))]

\* C9: a match whose amount group is not a number adds nothing and stops
\* nothing: the result is the result of the same matches without it.
C9_BadAmountSkipped ==
  pc \in {"collected", "parsed"} =>
    \A p \in 1..NumPatterns : \A k \in 1..Len(matches[p]) :
      ~Convertible(matches[p][k]) =>
        /\ transactions = PatternLoop(Without(p, k), 1)
        /\ pc = "parsed" => unique_transactions = parse_transactions(Without(p, k))

\* The first match of a pattern has no number for an amount, the second match
\* of the same pattern has one, and its transaction was returned.
W_C9 ==
  /\ pc = "parsed"
  /\ \E p \in 1..NumPatterns :
       /\ Len(matches[p]) = 2
       /\ ~Convertible(matches[p][1]) /\ Convertible(matches[p][2])
       /\ Len(unique_transactions) = 1
       /\ IsTransactionOf(unique_transactions[1], matches[p][2])
-----------------------------------------------------------------------------
(* Properties of load_and_filter_saas_data *)

SaasReturned == pc \in {"saas_loaded", "saas_done"}

\* The input row r is a row of the returned frame.
InSaasDf(r) == \E i \in 1..Len(saas_df) : saas_df[i].idx = r.idx

\* Some keyword of the SaaS table occurs in the upper-cased description.
SaasMatching(r) ==
  \E i \in 1..Len(saas_keywords) : \E k \in 1..Len(saas_keywords[i].keywords) :
    Contains(Upper(r.description), saas_keywords[i].keywords[k])

\* C7 as stated: every SaaS-matching input row whose triple differs from that
\* of every other input row is in the returned frame.
C7_UniqueTripleKept ==
  SaasReturned =>
    \A k \in 1..Len(csv) :
      (SaasMatching(csv[k]) /\ \A m \in 1..Len(csv) : m # k => Key(csv[m]) # Key(csv[k]))
        => InSaasDf(csv[k])

\* The rows agree on the description, a leading 'dd/dd ' aside, and on
\* amount_abs.
SamePair(r, q) ==
  /\ StripDatePrefix(r.description) = StripDatePrefix(q.description)
  /\ r.amount_abs = q.amount_abs

\* C7 amended: every SaaS-matching input row that no other SaaS-matching input
\* row agrees with on (description without date prefix, amount_abs) is in the
\* returned frame.
C7_UniquePairKept ==
  SaasReturned =>
    \A k \in 1..Len(csv) :
      (SaasMatching(csv[k])
         /\ \A m \in 1..Len(csv) : (m # k /\ SaasMatching(csv[m])) => ~SamePair(csv[m], csv[k]))
        => InSaasDf(csv[k])

\* Two SaaS rows with the same description and different amounts, both kept.
W_C7 ==
  /\ pc = "saas_loaded"
  /\ Len(csv) = 2 /\ Len(saas_df) = 2
  /\ csv[1].description = csv[2].description
  /\ csv[1].amount_abs # csv[2].amount_abs
-----------------------------------------------------------------------------
(* Properties of extract_pdf_data.main *)

\* Nothing has been extracted or written, and main is at its start or end.
ExitedEarly ==
  /\ pc \in {"main_start", "main_done"}
  /\ \A i \in 1..Len(calls) : calls[i] \notin {"extract_pdf_text", "debug_pdf_content"}
  /\ files = {}

\* C10 as stated: when PDF_PASSWORD or PDF_PATH is not set, main returns
\* before any extraction and without writing a file.
C10_MissingVariableExits ==
  (env.PDF_PASSWORD = None \/ env.PDF_PATH = None) => ExitedEarly

\* C10 amended: when PDF_PASSWORD is not set or empty, main prints the
\* explanation and returns before any extraction and without writing a file;
\* when only PDF_PATH is not set (or names your_bank_statement.pdf), main
\* prints a warning and goes on with bank_statement.pdf.
C10_MissingPasswordExits ==
  /\ env.PDF_PASSWORD \in {None, ""} =>
       /\ ExitedEarly
       /\ pc = "main_done" => calls = <<"print: PDF_PASSWORD environment variable not set">>
  /\ (/\ env.PDF_PASSWORD \notin {None, ""}
      /\ env.PDF_PATH \in {None, "your_bank_statement.pdf"}
      /\ pc # "main_start") =>
       /\ pdf_path = "bank_statement.pdf"
       /\ calls[1] = "print: Using default PDF path"

\* main has returned on an empty password with the path set.
W_C10 ==
  /\ pc = "main_done"
  /\ env.PDF_PASSWORD = "" /\ env.PDF_PATH = "statement.pdf"
  /\ calls = <<"print: PDF_PASSWORD environment variable not set">>


\* The function or print named c has been called.
Called(c) == \E i \in 1..Len(calls) : calls[i] = c

\* The files main writes after a successful parse.
AnalysisFiles ==
  {"credit_card_analysis.png", "credit_card_analysis_report.txt", "transactions.csv"}

\* C11: debug_pdf_content is called exactly when extract_pdf_text returned
\* None or an empty string, and after it; when the second library returns
\* no text either, main ends without parsing and without report, CSV or chart.
C11_FallbackIffNoText ==
  /\ Called("debug_pdf_content")
       <=> (Len(returned) >= 1 /\ returned[1] \in {None, ""} /\ pc # "fallback")
  /\ \A i \in 1..Len(calls) :
       calls[i] = "debug_pdf_content" => \E j \in 1..(i - 1) : calls[j] = "extract_pdf_text"
  /\ (Len(returned) = 2 /\ returned[2] \in {None, ""}) =>
       /\ pc = "main_done"
       /\ ~Called("parse_transactions")
       /\ files \cap AnalysisFiles = {}

\* The first library returned an empty text, the second returned None, and
\* main has ended.
W_C11 ==
  /\ pc = "main_done"
  /\ returned = <<"", None>>
  /\ calls = <<"extract_pdf_text", "debug_pdf_content">>


\* C12 as stated: a run that got past the password check and ended without
\* transactions has saved extracted_text.txt, and no other run has.
C12_TextSavedWheneverNoTransactions ==
  /\ (pc = "main_done" /\ env.PDF_PASSWORD \notin {None, ""} /\ transactions = <<>>)
       => "extracted_text.txt" \in files
  /\ "extracted_text.txt" \in files
       => (env.PDF_PASSWORD \notin {None, ""} /\ transactions = <<>>)

\* C12 amended: extracted_text.txt is written exactly in the runs in which
\* parse_transactions found nothing in an extracted text; a run in which both
\* libraries returned no text saves nothing.
C12_TextSavedIffParseFoundNothing ==
  /\ "extracted_text.txt" \in files <=> (Called("parse_transactions") /\ transactions = <<>>)
  /\ (Len(returned) = 2 /\ returned[2] \in {None, ""}) => files = {}

\* The second library delivered the text, parsing found nothing, and the text
\* was saved.
W_C12 ==
  /\ pc = "main_done"
  /\ returned = <<None, "text">>
  /\ transactions = <<>>
  /\ files = {"extracted_text.txt"}


\* C13: no run starts an external process or reaches the network: main never
\* calls subprocess.check_call (which runs `pip install pdfplumber`).
C13_NoExternalProcess == ~Called("subprocess.check_call")


-----------------------------------------------------------------------------
(* Properties of signed amounts *)

\* The amount of the statement line is preceded by a minus sign.
HasMinusAmount(s) ==
  \E i \in 1..(Len(s) - 2) : s[i] = " " /\ s[i + 1] = "-" /\ s[i + 2] \in Digits

\* C14: when the amount in the text is preceded by a minus sign, the parsed
\* transaction has a negative amount and amount_abs is its absolute value,
\* different from amount.
C14_MinusGivesNegativeAmount ==
  (pc \in {"signed_parsed", "signed_analyzed"} /\ HasMinusAmount(text)) =>
    /\ Len(transactions) = 1
    /\ transactions[1].amount < 0
    /\ pc = "signed_analyzed" =>
         (df[1].amount_abs = -df[1].amount /\ df[1].amount_abs # df[1].amount)


-----------------------------------------------------------------------------
(* C15: the record after categorization *)

\* The list categorize_transactions returned in this run.
Categorized == categorize_transactions(parse_transactions(matches))

\* main is past the call of categorize_transactions.
PastCategorization ==
  pc \in {"analyze", "visualize", "report"} \/ Called("print: ANALYSIS COMPLETE!")

\* The analysis table of main exists and the cleaning script has not
\* replaced it.
MainTable ==
  (pc \in {"visualize", "report"} \/ Called("print: ANALYSIS COMPLETE!"))
    /\ ~Called("clean_transactions")

\* The cleaning script holds a table.
CleanTable == Called("clean_transactions") /\ pc \in {"cleaned", "clean_done", "recategorized"}

SameRecord(r, t) ==
  /\ r.date = t.date /\ r.description = t.description
  /\ r.amount = t.amount /\ r.category = t.category

\* The steps of extract_pdf_data.main after categorization leave every
\* record as categorize_transactions left it: in the list, in the analysis
\* table and in the snapshot as it reads back, apart from an empty
\* description.
MainKeepsRecords ==
  /\ PastCategorization => transactions = Categorized
  /\ MainTable =>
       /\ Len(df) = Len(Categorized)
       /\ \A i \in 1..Len(df) : SameRecord(df[i], Categorized[i])
  /\ Called("print: ANALYSIS COMPLETE!") =>
       /\ Len(csv) = Len(Categorized)
       /\ \A i \in 1..Len(csv) :
            /\ read_csv(csv)[i].date = Categorized[i].date
            /\ read_csv(csv)[i].amount = Categorized[i].amount
            /\ read_csv(csv)[i].category = Categorized[i].category
            /\ Categorized[i].description # <<>> =>
                 read_csv(csv)[i].description = Categorized[i].description

\* C15 as stated: once categorize_transactions has set a record's category,
\* no later step (analysis, report, CSV snapshot, the cleaning script run on
\* that snapshot) changes its date, description, amount or category.
C15_NeverMutatedAfterCategorization ==
  /\ MainKeepsRecords
  /\ CleanTable => \A i \in 1..Len(df) : SameRecord(df[i], Categorized[df[i].idx + 1])

\* C15, amended: within extract_pdf_data.main no step after categorization
\* changes a record, and the cleaning script run on the snapshot keeps every
\* record's date and amount; but it reads an empty description back as a
\* missing value, and improve_categorization replaces the category of every
\* row by the one its own keyword table gives the description.
C15_MainKeepsRecordsCleaningRecategorizes ==
  /\ MainKeepsRecords
  /\ CleanTable =>
       \A i \in 1..Len(df) :
         LET t == Categorized[df[i].idx + 1]
         IN /\ df[i].date = t.date /\ df[i].amount = t.amount
            /\ df[i].description = (IF t.description = <<>> THEN NaN ELSE t.description)
            /\ pc \in {"cleaned", "clean_done"} => df[i].category = t.category
            /\ pc = "recategorized" =>
                 df[i].category = CategoryLoop(categories_clean, 1, t.description)

\* The cleaning script has recategorized a snapshot in which a record was
\* categorized as Travel, and the record is now Other; its amount has a
\* fraction that the snapshot had to carry.
W_C15 ==
  /\ pc = "recategorized"
  /\ \E i \in 1..Len(df) :
       /\ Categorized[df[i].idx + 1].category = "Travel"
       /\ df[i].category = "Other"
       /\ df[i].amount = 150


-----------------------------------------------------------------------------
(* C16: the files listed under "ANALYSIS COMPLETE!" *)

\* C16: whenever main has printed "ANALYSIS COMPLETE!" and listed its saved
\* files, the chart, the report and transactions.csv have all been written
\* in that run.
C16_CompleteMeansAllFilesWritten ==
  Called("print: ANALYSIS COMPLETE!") => AnalysisFiles \subseteq files


-----------------------------------------------------------------------------
(* C17: the keywords of the SaaS table *)

\* The description contains the keyword in some letter case.
ContainsAnyCase(x, k) == Contains(Upper(x), Upper(k))

\* Keyword j of category c is the first keyword of the table, in table
\* order, that the description contains in some letter case.
FirstKeywordAnyCase(x, c, j) ==
  /\ ContainsAnyCase(x, saas_keywords[c].keywords[j])
  /\ \A b \in 1..c : \A i \in 1..Len(saas_keywords[b].keywords) :
       (b < c \/ i < j) => ~ContainsAnyCase(x, saas_keywords[b].keywords[i])

\* C17: for each keyword k of each category, a row whose description
\* contains k in any letter case and no earlier keyword of the table is
\* returned by load_and_filter_saas_data with that category and with
\* saas_service equal to k lower-cased, unless an earlier row with the same
\* description and amount_abs stands for it.
C17_EveryKeywordSelectsAnyCase ==
  SaasReturned =>
    \A r \in 1..Len(csv) :
      \A c \in 1..Len(saas_keywords) : \A j \in 1..Len(saas_keywords[c].keywords) :
        (/\ FirstKeywordAnyCase(csv[r].description, c, j)
         /\ \A q \in 1..(r - 1) : ~SamePair(csv[q], csv[r]))
          => \E i \in 1..Len(saas_df) :
               /\ saas_df[i].idx = csv[r].idx
               /\ saas_df[i].saas_category = saas_keywords[c].name
               /\ saas_df[i].saas_service = Lower(saas_keywords[c].keywords[j])


-----------------------------------------------------------------------------
(* C18: detect_subscription_type *)

\* C18: the result is one of the three labels, chosen on the upper-cased
\* text with fixed precedence: usage-based if it contains 'USAGE'; otherwise
\* monthly subscription if it contains 'SUBSCR', 'PRO', 'PREMIUM' or 'PLUS';
\* otherwise one-time/other.
C18_SubscriptionTypePrecedence ==
  pc = "detected" =>
    LET u == Upper(text)
        usage == Contains(u, Str("USAGE"))
        plan == \E w \in {Str("SUBSCR"), Str("PRO"), Str("PREMIUM"), Str("PLUS")} : Contains(u, w)
    IN /\ Len(returned) = 1
       /\ returned[1] \in {UsageBased, MonthlySubscription, OneTimeOrOther}
       /\ returned[1] = UsageBased <=> usage
       /\ returned[1] = MonthlySubscription <=> (~usage /\ plan)
       /\ returned[1] = OneTimeOrOther <=> (~usage /\ ~plan)

\* A description with both 'USAGE' and 'PRO', classified usage-based.
W_C18 ==
  /\ pc = "detected"
  /\ Contains(Upper(text), Str("USAGE")) /\ Contains(Upper(text), Str("PRO"))
  /\ returned = <<UsageBased>>


-----------------------------------------------------------------------------
(* C19: the analysis dict *)

\* analyze_spending has returned its dict in this run.
Analyzed == pc \in {"visualize", "report"} \/ Called("print: ANALYSIS COMPLETE!")

\* Sum of the values of a dict.
RECURSIVE SumValues(_, _)
SumValues(f, keys) ==
  IF keys = {} THEN 0
  ELSE LET k == CHOOSE x \in keys : TRUE IN f[k] + SumValues(f, keys \ {k})

RECURSIVE SumAbsAmounts(_)
SumAbsAmounts(ts) == IF ts = <<>> THEN 0 ELSE Abs(Head(ts).amount) + SumAbsAmounts(Tail(ts))

-----------------------------------------------------------------------------
(* C20: clean_transactions applied to its own output *)

\* C20: the three filters and the duplicate removal, applied to the frame
\* clean_transactions returned, remove no further row and change no row's
\* order.
C20_CleanIsIdempotent ==
  pc \in {"cleaned", "clean_done"} => clean_transactions(df) = df

\* A returned frame that kept a row and lost one.
W_C20 ==
  /\ pc = "cleaned"
  /\ Len(csv) = 2 /\ Len(df) = 1
  /\ clean_transactions(df) = df


-----------------------------------------------------------------------------
(* C21: the cleaning script on the rows that survive *)

\* C21: once the cleaning script has been started on the snapshot it never
\* aborts, and every row that survived clean_transactions has the category
\* improve_categorization gives its description, a row whose description is
\* read back as a missing value included.
C21_CleaningNeverAborts ==
  Called("clean_transactions") =>
    /\ pc # "crashed"
    /\ pc = "recategorized" =>
         \A i \in 1..Len(df) :
           df[i].category \in { categories_clean[c].name : c \in 1..Len(categories_clean) }


-----------------------------------------------------------------------------
(* C22: main after a parse that found transactions *)

\* The parse of this run has returned at least one transaction.
ParseFound == Called("parse_transactions") /\ transactions # <<>>

\* What holds of every state of main: "Analysis failed" is never printed;
\* a run whose parse found transactions ends only after the report and
\* transactions.csv were written; the analysis of an analyzed run is a
\* non-empty dict; and of the lists analyze_spending can be given, the
\* prefixes of the categorized list, only the empty one has no analysis.
AnalysisNeverFails ==
  /\ ~Called("print: Analysis failed - no valid transactions found")
  /\ (ParseFound /\ pc = "main_done") =>
       /\ Called("print: ANALYSIS COMPLETE!")
       /\ {"credit_card_analysis_report.txt", "transactions.csv"} \subseteq files
  /\ Analyzed =>
       /\ Truthy(analysis)
       /\ \A k \in 0..Len(transactions) :
            ~Truthy(analyze_spending(WithAmountAbs(SubSeq(transactions, 1, k)))) <=> k = 0

\* C22: if parse_transactions returns at least one transaction then
\* analyze_spending returns a non-empty analysis and main goes on to write
\* the report and transactions.csv; the "Analysis failed" branch is never
\* taken, and analyze_spending returns no analysis only for an empty list.
C22_ParsedRunIsAnalyzedAndSaved ==
  /\ []AnalysisNeverFails
  /\ ParseFound ~>
       (/\ Truthy(analysis)
        /\ {"credit_card_analysis_report.txt", "transactions.csv"} \subseteq files)

\* A run whose parse found one transaction has ended with its analysis, its
\* report and its snapshot.
W_C22 ==
  /\ pc = "main_done" /\ Len(transactions) = 1
  /\ Truthy(analysis) /\ analysis.number_of_transactions = 1
  /\ {"credit_card_analysis_report.txt", "transactions.csv"} \subseteq files

====
